---- MODULE Spec2Model ----
(***************************************************************************)
(* A model of str-var-subst (src/src/lib.rs): replace_variables, which     *)
(* replaces every %{{variable}} of a template by what a caller-supplied    *)
(* replacement strategy returns for it, the helper remove_var_delimiters,  *)
(* the environment strategy map_to_env, and the lazily built pattern RE.   *)
(*                                                                         *)
(* A text is a sequence of characters; a character is a one-element        *)
(* string.  The character U+00E9 (e with acute accent) stands for the      *)
(* non-ASCII word characters, " " for white space.                         *)
(***************************************************************************)
EXTENDS Integers, Sequences, FiniteSets, TLC

\* ------------------------------------------------------------- bounds

\* A template is the concatenation of at most MaxPieces fragments of Pieces.
MaxPieces == 3
\* The same, for the runs with map_to_env as the strategy.
MaxEnvPieces == 2
\* Threads calling replace_variables concurrently, and calls per thread.
NThreads == 3
MaxCalls == 2

\* --------------------------------------------------------- characters

EAcute == "U+00E9"
Space == " "

\* \w of the pattern.  The regex crate's \w is Unicode-aware: it matches the
\* ASCII letters, digits and underscore, and every other alphabetic or
\* numeric character as well.
IsWord(c) == c \in {"a", "b", "_", "1", EAcute}

\* Mutant: the pattern written (\w+), without a class for the first character.
IsFirst_AnyWord(c) == IsWord(c)

\* [a-zA-Z_] of the pattern.
IsFirst(c) == c \in {"a", "b", "_"}

\* White_Space, what str::trim removes.
IsWhitespace(c) == c = Space

\* ------------------------------------------------------- the pattern RE

\* (%\{\{)([a-zA-Z_]\w*)(\}\})
RE == "(%\\{\\{)([a-zA-Z_]\\w*)(\\}\\})"

NoMatch == [start |-> 0, end |-> 0, g2s |-> 0, g2e |-> 0]

\* The literal lit occurs in t at position i.
LitAt(t, i, lit) ==
    /\ i + Len(lit) - 1 <= Len(t)
    /\ SubSeq(t, i, i + Len(lit) - 1) = lit

\* \w* from position j: the last position of the longest run of word
\* characters starting at j (j - 1 when the run is empty).
RECURSIVE WordRunEnd(_, _)
WordRunEnd(t, j) ==
    IF j <= Len(t) /\ IsWord(t[j]) THEN WordRunEnd(t, j + 1) ELSE j - 1

\* \s* from position j: the last position of the run of white space.
RECURSIVE SpaceRunEnd(_, _)
SpaceRunEnd(t, j) ==
    IF j <= Len(t) /\ IsWhitespace(t[j]) THEN SpaceRunEnd(t, j + 1) ELSE j - 1

\* Mutant: the pattern written (%\{\{)\s*([a-zA-Z_]\w*)\s*(\}\}), which
\* accepts white space inside the delimiters.
MatchAt_Padded(t, i) ==
    IF LitAt(t, i, <<"%", "{", "{">>)
    THEN LET a == SpaceRunEnd(t, i + 3) IN
         IF a + 1 <= Len(t) /\ IsFirst(t[a + 1])
         THEN LET k == WordRunEnd(t, a + 2)
                  b == SpaceRunEnd(t, k + 1)
              IN  IF LitAt(t, b + 1, <<"}", "}">>)
                  THEN [start |-> i, end |-> b + 2, g2s |-> a + 1, g2e |-> k]
                  ELSE NoMatch
         ELSE NoMatch
    ELSE NoMatch

\* The match of RE anchored at position i of t, with the span of group 0
\* (start, end) and of group 2 (g2s, g2e), or NoMatch.  \w* is greedy; a
\* shorter run never helps, because the run ends before a character that is
\* no word character and "}" is none.
MatchAt(t, i) ==
    IF /\ LitAt(t, i, <<"%", "{", "{">>)
       /\ i + 3 <= Len(t)
       /\ IsFirst(t[i + 3])
    THEN LET k == WordRunEnd(t, i + 4) IN
         IF LitAt(t, k + 1, <<"}", "}">>)
         THEN [start |-> i, end |-> k + 2, g2s |-> i + 3, g2e |-> k]
         ELSE NoMatch
    ELSE NoMatch

\* The leftmost match of RE in t that starts at position i or later: what
\* the iteration of replace_all finds next.
RECURSIVE FindFrom(_, _)
FindFrom(t, i) ==
    IF i > Len(t) THEN NoMatch
    ELSE IF MatchAt(t, i) # NoMatch THEN MatchAt(t, i)
    ELSE FindFrom(t, i + 1)

\* Mutant: the search resumes one character too far.
NextMatch_SkipOne(t, lastEnd) == FindFrom(t, lastEnd + 2)

\* replace_all resumes the search right after the last match it consumed.
NextMatch(t, lastEnd) == FindFrom(t, lastEnd + 1)

\* caps[0]: the text of the whole match.
Cap0(t, m) == SubSeq(t, m.start, m.end)

\* caps[2]: the text of the identifier group.
Cap2(t, m) == SubSeq(t, m.g2s, m.g2e)

\* ------------------------------------------------ remove_var_delimiters

\* str::replace(c, ""): every occurrence of the character c deleted.
StrReplace(s, c) == SelectSeq(s, LAMBDA x : x # c)

RECURSIVE TrimStart(_)
TrimStart(s) ==
    IF s # <<>> /\ IsWhitespace(Head(s)) THEN TrimStart(Tail(s)) ELSE s

RECURSIVE TrimEnd(_)
TrimEnd(s) ==
    IF s # <<>> /\ IsWhitespace(s[Len(s)])
    THEN TrimEnd(SubSeq(s, 1, Len(s) - 1))
    ELSE s

\* str::trim
Trim(s) == TrimEnd(TrimStart(s))

\* Mutant: the "%" is left in.
remove_var_delimiters_KeepPercent(raw_variable) ==
    Trim(StrReplace(StrReplace(raw_variable, "{"), "}"))

remove_var_delimiters(raw_variable) ==
    Trim(StrReplace(StrReplace(StrReplace(raw_variable, "{"), "}"), "%"))

\* ----------------------------------------------------------- map_to_env

\* The variables of the process environment the model follows; every other
\* name is unset.
EnvNames == {<<"a">>, <<"b">>}

EnvValues ==
    { [kind |-> "unset", text |-> <<>>],
      [kind |-> "unicode", text |-> <<"v">>],
      [kind |-> "not_unicode", text |-> <<"0xFF">>] }

\* std::env::var: Ok(value) for a variable that is set to valid Unicode,
\* Err(NotPresent) for one that is unset, Err(NotUnicode) for one whose
\* value is not valid Unicode.
EnvVar(e, var) ==
    IF var \notin DOMAIN e \/ e[var].kind = "unset"
    THEN [ok |-> FALSE, err |-> "NotPresent", val |-> <<>>]
    ELSE IF e[var].kind = "not_unicode"
    THEN [ok |-> FALSE, err |-> "NotUnicode", val |-> <<>>]
    ELSE [ok |-> TRUE, err |-> "", val |-> e[var].text]

map_to_env(e, var) ==
    IF EnvVar(e, var).ok THEN EnvVar(e, var).val ELSE <<>>

\* ------------------------------------------------ replacement strategies

Returned(s) == [ok |-> TRUE, text |-> s]
Aborted == [ok |-> FALSE, text |-> <<>>]

\* What a caller's closure may return: nothing, a text, or a text that is
\* itself a token.
Replies == {<<>>, <<"X">>, <<"%", "{", "{", "b", "}", "}">>}

\* The outcomes of one invocation replacement_strategy(arg).  A caller's
\* closure (F: Fn(&str) -> String) may return any text, differently at each
\* invocation, or panic; map_to_env reads the environment.
StrategyOutcomes(strategy, e, arg) ==
    IF strategy = "map_to_env"
    THEN {Returned(map_to_env(e, arg))}
    ELSE {Returned(r) : r \in Replies} \cup {Aborted}

\* ------------------------------------------------------------ templates

Pieces ==
    { <<"%", "{", "{", "a", "}", "}">>,
      <<"%", "{", "{", "b", "}", "}">>,
      <<"%", "{", "{", Space, "a", Space, "}", "}">>,
      <<"%", "{", "{", "a">>,
      <<"%", "{", "{">>,
      <<"}", "}">>,
      <<"%">>, <<"{">>, <<"}">>,
      <<"a">>, <<"_">>, <<"1">>, <<EAcute>>, <<Space>> }

RECURSIVE Flatten(_)
Flatten(ps) == IF ps = <<>> THEN <<>> ELSE Head(ps) \o Flatten(Tail(ps))

Templates(n) == {Flatten(ps) : ps \in UNION {[1..k -> Pieces] : k \in 0..n}}

\* ---------------------------------------------------------------- state

VARIABLES
    template_text,          \* the argument of replace_variables
    replacement_strategy,   \* "closure" (a caller's F) or "map_to_env"
    env,                    \* the process environment
    pc,                     \* "replace_all", "done" or "unwinding"
    last,                   \* replace_all: end of the last match consumed
    out,                    \* replace_all: the new string built so far
    calls,                  \* the invocations of the strategy, in order
    result,                 \* what replace_variables returned, if it did
    once,                   \* lazy_static: state of the Once of RE
    cell,                   \* lazy_static: the cell holding the Regex
    built,                  \* how many times Regex::new ran
    tpc,                    \* per thread: where it is in replace_variables
    seen,                   \* per thread: the cell values its calls read
    ncalls                  \* per thread: calls started

callVars == <<template_text, replacement_strategy, env, pc, last, out, calls, result>>
lazyVars == <<once, cell, built, tpc, seen, ncalls>>
vars == <<template_text, replacement_strategy, env, pc, last, out, calls, result,
          once, cell, built, tpc, seen, ncalls>>

Threads == 1..NThreads

NoResult == [returned |-> FALSE, text |-> <<>>]

NoEnv == [n \in EnvNames |-> [kind |-> "unset", text |-> <<>>]]

\* ------------------------------------------------- replace_variables

\* Mutant: a failure of the strategy is swallowed and the scan goes on.
PcAfterStrategy_Swallow(o) == "replace_all"

\* The position replace_all is in after the strategy's invocation: it goes
\* on with the next match, or the panic unwinds through replace_all and
\* replace_variables, which catch nothing.
PcAfterStrategy(o) == IF o.ok THEN "replace_all" ELSE "unwinding"

\* Mutant: the text between the matches is dropped.
PushReplacement_DropLiteral(new, literal, replacement) == new \o replacement

\* replace_all appends the text between the last match and this one, then
\* the replacement (format!("{}", ...) of what the strategy returned).
PushReplacement(new, literal, replacement) == new \o literal \o replacement

\* Mutant: the string built is expanded a second time (here by a strategy
\* that maps every variable to the empty string).
RECURSIVE ExpandAgain(_, _)
ExpandAgain(s, from) ==
    LET m == FindFrom(s, from) IN
    IF m = NoMatch THEN SubSeq(s, from, Len(s))
    ELSE SubSeq(s, from, m.start - 1) \o ExpandAgain(s, m.end + 1)

FinalString_Reexpand(s) == ExpandAgain(s, 1)

\* String::from(result.to_string()): an owned copy of what replace_all built.
FinalString(s) == s

\* One iteration of replace_all: the next match is found, the closure calls
\* replacement_strategy(&remove_var_delimiters(&caps[0])), and the text
\* before the match and the replacement are appended.
ReplaceMatch ==
    /\ pc = "replace_all"
    /\ LET m == NextMatch(template_text, last)
           arg == remove_var_delimiters(Cap0(template_text, m))
       IN  /\ m # NoMatch
           /\ \E o \in StrategyOutcomes(replacement_strategy, env, arg) :
                /\ calls' = Append(calls, [m |-> m, arg |-> arg, ret |-> o])
                /\ pc' = PcAfterStrategy(o)
                /\ out' = IF o.ok
                          THEN PushReplacement(out,
                                   SubSeq(template_text, last + 1, m.start - 1), o.text)
                          ELSE out
                /\ last' = IF o.ok THEN m.end ELSE last
    /\ UNCHANGED <<template_text, replacement_strategy, env, result>>
    /\ UNCHANGED lazyVars

\* No match is left: replace_all appends the rest of the template, and
\* replace_variables returns the string.
Finish ==
    /\ pc = "replace_all"
    /\ NextMatch(template_text, last) = NoMatch
    /\ out' = out \o SubSeq(template_text, last + 1, Len(template_text))
    /\ result' = [returned |-> TRUE, text |-> FinalString(out')]
    /\ pc' = "done"
    /\ UNCHANGED <<template_text, replacement_strategy, env, last, calls>>
    /\ UNCHANGED lazyVars

LazyIdle ==
    /\ once = "COMPLETE"
    /\ cell = RE
    /\ built = 1
    /\ tpc = [t \in Threads |-> "idle"]
    /\ seen = [t \in Threads |-> <<>>]
    /\ ncalls = [t \in Threads |-> 0]

Init ==
    /\ template_text \in Templates(MaxPieces)
    /\ replacement_strategy = "closure"
    /\ env = NoEnv
    /\ pc = "replace_all"
    /\ last = 0
    /\ out = <<>>
    /\ calls = <<>>
    /\ result = NoResult
    /\ LazyIdle

Next == ReplaceMatch \/ Finish

Spec == Init /\ [][Next]_vars

\* replace_variables(template, map_to_env), in any environment.
InitEnv ==
    /\ template_text \in Templates(MaxEnvPieces)
    /\ replacement_strategy = "map_to_env"
    /\ env \in [EnvNames -> EnvValues]
    /\ pc = "replace_all"
    /\ last = 0
    /\ out = <<>>
    /\ calls = <<>>
    /\ result = NoResult
    /\ LazyIdle

SpecEnv == InitEnv /\ [][Next]_vars

\* ------------------------------------------- lazy_static! { static ref RE }

\* Once::call_once returns at once only when the state is COMPLETE; a thread
\* that finds the initialisation running waits for it.
OnceIsCompleted(s) == s = "COMPLETE"

\* Mutant: the Once is tested and left as it is, so that a second thread
\* finds it INCOMPLETE as well.
OnceClaim_NoMark(s) == s

\* The thread that finds the Once INCOMPLETE marks it RUNNING in the same
\* atomic step, so that no other thread runs the initialiser.
OnceClaim(s) == "RUNNING"

\* A thread calls replace_variables; its first use of RE dereferences the
\* lazy static.
Enter(t) ==
    /\ tpc[t] = "idle"
    /\ ncalls[t] < MaxCalls
    /\ tpc' = [tpc EXCEPT ![t] = "deref"]
    /\ ncalls' = [ncalls EXCEPT ![t] = @ + 1]
    /\ UNCHANGED <<once, cell, built, seen>>
    /\ UNCHANGED callVars

CallOnceCompleted(t) ==
    /\ tpc[t] = "deref"
    /\ OnceIsCompleted(once)
    /\ tpc' = [tpc EXCEPT ![t] = "read"]
    /\ UNCHANGED <<once, cell, built, seen, ncalls>>
    /\ UNCHANGED callVars

CallOnceBegin(t) ==
    /\ tpc[t] = "deref"
    /\ once = "INCOMPLETE"
    /\ once' = OnceClaim(once)
    /\ tpc' = [tpc EXCEPT ![t] = "init"]
    /\ UNCHANGED <<cell, built, seen, ncalls>>
    /\ UNCHANGED callVars

\* The initialiser: Regex::new(...).unwrap(), stored in the cell.
BuildPattern(t) ==
    /\ tpc[t] = "init"
    /\ cell' = RE
    /\ built' = built + 1
    /\ tpc' = [tpc EXCEPT ![t] = "publish"]
    /\ UNCHANGED <<once, seen, ncalls>>
    /\ UNCHANGED callVars

Publish(t) ==
    /\ tpc[t] = "publish"
    /\ once' = "COMPLETE"
    /\ tpc' = [tpc EXCEPT ![t] = "read"]
    /\ UNCHANGED <<cell, built, seen, ncalls>>
    /\ UNCHANGED callVars

\* RE.replace_all reads the pattern in the cell.
ReadPattern(t) ==
    /\ tpc[t] = "read"
    /\ seen' = [seen EXCEPT ![t] = Append(@, cell)]
    /\ tpc' = [tpc EXCEPT ![t] = "matching"]
    /\ UNCHANGED <<once, cell, built, ncalls>>
    /\ UNCHANGED callVars

Return(t) ==
    /\ tpc[t] = "matching"
    /\ tpc' = [tpc EXCEPT ![t] = "idle"]
    /\ UNCHANGED <<once, cell, built, seen, ncalls>>
    /\ UNCHANGED callVars

InitLazy ==
    /\ template_text = <<>>
    /\ replacement_strategy = "closure"
    /\ env = NoEnv
    /\ pc = "done"
    /\ last = 0
    /\ out = <<>>
    /\ calls = <<>>
    /\ result = [returned |-> TRUE, text |-> <<>>]
    /\ once = "INCOMPLETE"
    /\ cell = "uninit"
    /\ built = 0
    /\ tpc = [t \in Threads |-> "idle"]
    /\ seen = [t \in Threads |-> <<>>]
    /\ ncalls = [t \in Threads |-> 0]

NextLazy ==
    \/ \E t \in Threads : Enter(t)
    \/ \E t \in Threads : CallOnceCompleted(t)
    \/ \E t \in Threads : CallOnceBegin(t)
    \/ \E t \in Threads : BuildPattern(t)
    \/ \E t \in Threads : Publish(t)
    \/ \E t \in Threads : ReadPattern(t)
    \/ \E t \in Threads : Return(t)

SpecLazy == InitLazy /\ [][NextLazy]_vars

\* =================================================================
\* The properties of replace_variables, stated on the template text, the
\* log of the strategy's invocations and the returned string.

\* The identifier syntax as the specification words it (ASCII only).
AsciiLetter == {"a", "b"}
AsciiDigit == {"1"}
AsciiIdentStart == AsciiLetter \cup {"_"}
AsciiIdentPart == AsciiLetter \cup AsciiDigit \cup {"_"}

\* The characters the pattern accepts in an identifier.
IdentStart == {"a", "b", "_"}
IdentPart == {"a", "b", "_", "1", EAcute}

Opener == <<"%", "{", "{">>
Closer == <<"}", "}">>

\* The positions of t where "%{{" is written.
Openers(t) == {s \in 1..Len(t) : s + 2 <= Len(t) /\ SubSeq(t, s, s + 2) = Opener}

\* t[s..e] is a token: "%{{", an identifier, "}}".
IsTokenSpan(t, s, e) ==
    /\ s + 5 <= e
    /\ e <= Len(t)
    /\ SubSeq(t, s, s + 2) = Opener
    /\ SubSeq(t, e - 1, e) = Closer
    /\ t[s + 3] \in IdentStart
    /\ \A j \in (s + 4)..(e - 2) : t[j] \in IdentPart

TokenSpans(t) ==
    UNION { { <<s, e>> : e \in {x \in (s + 5)..Len(t) : IsTokenSpan(t, s, x)} } :
            s \in Openers(t) }

RECURSIVE SortSpans(_)
SortSpans(S) ==
    IF S = {} THEN <<>>
    ELSE LET first == CHOOSE x \in S : \A y \in S : x[1] <= y[1]
         IN  <<first>> \o SortSpans(S \ {first})

\* The tokens of t from left to right.
TokenSeq(t) == SortSpans(TokenSpans(t))

TokenIdent(t, sp) == SubSeq(t, sp[1] + 3, sp[2] - 2)

\* The text outside the tokens sp[i..] from position from on, with the
\* i-th token replaced by what the i-th invocation returned.
RECURSIVE Assemble(_, _, _, _, _)
Assemble(t, sp, cs, i, from) ==
    IF i > Len(sp) THEN SubSeq(t, from, Len(t))
    ELSE SubSeq(t, from, sp[i][1] - 1) \o cs[i].ret.text
         \o Assemble(t, sp, cs, i + 1, sp[i][2] + 1)

\* How many characters of the output precede those of template position p:
\* the p - 1 characters before it, with every token replaced before p
\* counted as its replacement.
RECURSIVE Gained(_, _, _)
Gained(cs, i, p) ==
    IF i > Len(cs) THEN 0
    ELSE (IF cs[i].m.end < p
          THEN Len(cs[i].ret.text) - (cs[i].m.end - cs[i].m.start + 1)
          ELSE 0) + Gained(cs, i + 1, p)

OutOffset(cs, p) == (p - 1) + Gained(cs, 1, p)

\* The text piece is in text right after its first off characters.
TextAt(text, off, piece) ==
    /\ off >= 0
    /\ off + Len(piece) <= Len(text)
    /\ SubSeq(text, off + 1, off + Len(piece)) = piece

\* The template's characters s..e are in the returned string, unchanged, at
\* their place, and no invocation was made for a match that touches them.
PassedThrough(s, e) ==
    /\ \A i \in 1..Len(calls) : calls[i].m.end < s \/ calls[i].m.start > e
    /\ TextAt(result.text, OutOffset(calls, s), SubSeq(template_text, s, e))

\* C1: when replace_variables returns, the returned string is the template
\* with every token replaced by what the strategy returned for it and all
\* other text copied unchanged, in the order of the template; a template
\* without tokens is returned as it is.
C1_Output ==
    pc = "done" =>
        LET sp == TokenSeq(template_text) IN
        /\ result.returned
        /\ Len(calls) = Len(sp)
        /\ result.text = Assemble(template_text, sp, calls, 1, 1)
        /\ (sp = <<>> => result.text = template_text)

\* Two adjacent tokens, replaced by different non-empty texts, beside
\* literal text.
C1_Witness ==
    /\ pc = "done"
    /\ Len(calls) = 2
    /\ calls[2].m.start = calls[1].m.end + 1
    /\ calls[1].ret.text # <<>>
    /\ calls[2].ret.text # <<>>
    /\ calls[1].ret.text # calls[2].ret.text
    /\ Len(template_text) > calls[2].m.end

\* A token written with white space inside the delimiters: "%{{", one or
\* more spaces, an identifier, one or more spaces, "}}".
RECURSIVE SpacesEnd(_, _)
SpacesEnd(t, j) ==
    IF j <= Len(t) /\ t[j] = Space THEN SpacesEnd(t, j + 1) ELSE j - 1

RECURSIVE AsciiIdentEnd(_, _)
AsciiIdentEnd(t, j) ==
    IF j <= Len(t) /\ t[j] \in AsciiIdentPart THEN AsciiIdentEnd(t, j + 1) ELSE j - 1

\* The padded token that starts at s, as [ids, ide, end], or end = 0.
PaddedAt(t, s) ==
    LET a == SpacesEnd(t, s + 3)
        k == AsciiIdentEnd(t, a + 1)
        b == SpacesEnd(t, k + 1)
    IN  IF /\ a >= s + 3
           /\ k >= a + 1
           /\ t[a + 1] \in AsciiIdentStart
           /\ b >= k + 1
           /\ b + 2 <= Len(t)
           /\ SubSeq(t, b + 1, b + 2) = Closer
        THEN [ids |-> a + 1, ide |-> k, end |-> b + 2]
        ELSE [ids |-> 0, ide |-> 0, end |-> 0]

PaddedOpeners(t) == {s \in Openers(t) : PaddedAt(t, s).end # 0}

\* C2 as the specification states it: a token with white space inside the
\* delimiters is matched, and the strategy is invoked with its trimmed
\* identifier.
C2_PaddedTokenResolved ==
    pc = "done" =>
        \A s \in PaddedOpeners(template_text) :
            LET pt == PaddedAt(template_text, s) IN
            \E i \in 1..Len(calls) :
                /\ calls[i].m.start = s
                /\ calls[i].m.end = pt.end
                /\ calls[i].arg = SubSeq(template_text, pt.ids, pt.ide)

\* C2, amended: a token with white space inside the delimiters is not
\* matched; the strategy is not invoked for it and its characters are in
\* the returned string unchanged.
C2_PaddedTokenLiteral ==
    pc = "done" =>
        \A s \in PaddedOpeners(template_text) :
            PassedThrough(s, PaddedAt(template_text, s).end)

\* A padded token after a token that was replaced by a longer text.
C2_Witness ==
    /\ pc = "done"
    /\ PaddedOpeners(template_text) # {}
    /\ Len(calls) = 1
    /\ Len(calls[1].ret.text) = 1
    /\ \E s \in PaddedOpeners(template_text) : s > calls[1].m.end

\* C3 as the specification states it: every argument of the strategy is a
\* non-empty ASCII identifier, [A-Za-z_][A-Za-z0-9_]*.
C3_AsciiIdentifier ==
    \A i \in 1..Len(calls) :
        /\ calls[i].arg # <<>>
        /\ calls[i].arg[1] \in AsciiIdentStart
        /\ \A j \in 1..Len(calls[i].arg) : calls[i].arg[j] \in AsciiIdentPart

\* C4: the strategy is invoked once per token, from left to right: the
\* i-th invocation is for the i-th token of the template and receives its
\* identifier, a step makes at most one invocation, and when
\* replace_variables returns there are as many invocations as tokens.
C4_OncePerMatchInOrder ==
    LET sp == TokenSeq(template_text) IN
    /\ Len(calls) <= Len(sp)
    /\ \A i \in 1..Len(calls) :
          /\ calls[i].m.start = sp[i][1]
          /\ calls[i].m.end = sp[i][2]
          /\ calls[i].arg = TokenIdent(template_text, sp[i])
    /\ (pc = "done" => Len(calls) = Len(sp))
    /\ (pc = "replace_all" => last = IF calls = <<>> THEN 0 ELSE calls[Len(calls)].m.end)

\* The same identifier at two positions with another one between them.
C4_Witness ==
    /\ pc = "done"
    /\ Len(calls) = 3
    /\ calls[1].arg = calls[3].arg
    /\ calls[2].arg # calls[1].arg
    /\ calls[1].ret # calls[3].ret

\* C5: a replacement is not scanned again: it is in the returned string as
\* the strategy returned it, at the place of its token, and every invocation
\* is for a token of the template.
C5_NoReexpansion ==
    pc = "done" =>
        /\ \A i \in 1..Len(calls) :
              /\ <<calls[i].m.start, calls[i].m.end>> \in TokenSpans(template_text)
              /\ TextAt(result.text, OutOffset(calls, calls[i].m.start),
                        calls[i].ret.text)
        /\ Len(calls) = Cardinality(TokenSpans(template_text))

\* The strategy returned the token %{{b}} for a template that has no token
\* of that identifier.
C5_Witness ==
    /\ pc = "done"
    /\ Len(calls) = 1
    /\ calls[1].arg = <<"a">>
    /\ calls[1].ret.text = <<"%", "{", "{", "b", "}", "}">>
    /\ TokenSpans(result.text) # {}

\* The malformed tokens: "%{{" followed by "}}" (an empty identifier), by a
\* digit (an identifier that starts with a digit), or with no "}}" anywhere
\* after it (unterminated).
HasCloserAfter(t, s) ==
    \E j \in (s + 3)..(Len(t) - 1) : SubSeq(t, j, j + 1) = Closer

EmptyIdentAt(t, s) == s + 4 <= Len(t) /\ SubSeq(t, s + 3, s + 4) = Closer
DigitStartAt(t, s) == s + 3 <= Len(t) /\ t[s + 3] \in AsciiDigit
UnterminatedAt(t, s) == ~HasCloserAfter(t, s)

MalformedOpeners(t) ==
    {s \in Openers(t) : EmptyIdentAt(t, s) \/ DigitStartAt(t, s) \/ UnterminatedAt(t, s)}

\* The characters of the malformed token at s: all the rest of the text
\* when it is unterminated; otherwise "%{{", the identifier characters that
\* follow, and the "}}" right after them if there is one.
MalformedEnd(t, s) ==
    IF UnterminatedAt(t, s) THEN Len(t)
    ELSE LET k == AsciiIdentEnd(t, s + 3) IN
         IF k + 2 <= Len(t) /\ SubSeq(t, k + 1, k + 2) = Closer THEN k + 2 ELSE k

\* C6: a malformed token is not matched: the strategy is not invoked for
\* it and its characters are in the returned string unchanged.
C6_MalformedPassthrough ==
    pc = "done" =>
        \A s \in MalformedOpeners(template_text) :
            PassedThrough(s, MalformedEnd(template_text, s))

\* The template %{{1}} was returned.
C6_Witness ==
    /\ pc = "done"
    /\ result.returned
    /\ \E s \in MalformedOpeners(template_text) :
          /\ DigitStartAt(template_text, s)
          /\ MalformedEnd(template_text, s) = s + 5

\* C7: when the strategy fails, replace_variables returns nothing, the
\* failed invocation is the last one (none for a later match, no retry),
\* and the invocations before it are those of the earlier tokens; a call
\* fails only when an invocation of the strategy failed.
C7_FailurePropagates ==
    /\ \A i \in 1..(Len(calls) - 1) : calls[i].ret.ok
    /\ \A i \in 1..(Len(calls) - 1) : calls[i].m.end < calls[i + 1].m.start
    /\ (\E i \in 1..Len(calls) : ~calls[i].ret.ok) =>
          (pc = "unwinding" /\ ~result.returned /\ result = NoResult)
    /\ pc = "unwinding" => (calls # <<>> /\ ~calls[Len(calls)].ret.ok)
    /\ pc = "done" => result.returned

\* The strategy failed at the second of three tokens.
C7_Witness ==
    /\ pc = "unwinding"
    /\ Len(calls) = 2
    /\ Cardinality(TokenSpans(template_text)) = 3
    /\ out # <<>>

\* C8 as the specification states it: with map_to_env as the strategy,
\* every invocation returns the value of the variable when it is set and
\* the empty string when it is unset, and never fails.
C8_EnvValue ==
    \A i \in 1..Len(calls) :
        /\ calls[i].ret.ok
        /\ calls[i].ret.text =
              IF calls[i].arg \in DOMAIN env /\ env[calls[i].arg].kind # "unset"
              THEN env[calls[i].arg].text
              ELSE <<>>

\* C9: the pattern is built at most once, no call reads the cell before
\* the pattern is in it and published, every call reads the same pattern,
\* and the pattern is never changed once it is published.
C9_StateOk ==
    /\ built <= 1
    /\ \A t \in Threads : \A i \in 1..Len(seen[t]) : seen[t][i] = RE
    /\ \A t \in Threads : tpc[t] \in {"read", "matching"} => (once = "COMPLETE" /\ cell = RE)
    /\ once = "COMPLETE" => (cell = RE /\ built = 1)

C9_BuiltOnce ==
    /\ [](C9_StateOk)
    /\ [][once = "COMPLETE" => (once' = once /\ cell' = cell /\ built' = built)]_vars

\* Two threads make the first call at the same time: one builds the
\* pattern while the other waits at the Once.
C9_Witness ==
    \E t, u \in Threads :
        /\ t # u
        /\ tpc[t] = "publish"
        /\ tpc[u] = "deref"
        /\ once = "RUNNING"
        /\ ncalls[t] = 1
        /\ ncalls[u] = 1

\* C10: for every match, remove_var_delimiters of the whole match is the
\* identifier group of the match.
C10_StripIsGroup2 ==
    \A i \in 1..Len(calls) : calls[i].arg = Cap2(template_text, calls[i].m)

\* An identifier of several characters, with an underscore or a digit.
C10_Witness ==
    /\ Len(calls) = 1
    /\ Len(calls[1].arg) = 2
    /\ calls[1].arg[2] \in {"_", "1"}

====
